---------------------------- MODULE Spec2Model ----------------------------
(***************************************************************************)
(* A model of hypher: the pattern parser (tex.rs), the trie builder, its   *)
(* suffix compression and binary encoder (trie.rs), and the run-time       *)
(* decoder, hyphenator and syllable iterator (lib.rs).                     *)
(*                                                                         *)
(* Bytes are naturals 0..255, a str is the sequence of its code points and *)
(* str_bytes gives its UTF-8 bytes.  Rust indices are 0-based: At(s, i) is *)
(* s[i] of the source.  An Option is <<>> (None) or <<v>> (Some(v)); a     *)
(* computation that may panic returns Ok(v) or Panic.                      *)
(***************************************************************************)
EXTENDS Integers, Sequences, FiniteSets, TLC

VARIABLES
    root,         \* TrieBuilder.root
    nodes,        \* TrieBuilder.nodes
    levels,       \* TrieBuilder.levels: the level table, pairs <<dist, level>>
    inserted,     \* the patterns given to insert() so far, in order
    compressions, \* how many times compress() has run
    blob,         \* <<data>> once encode() has run, else <<>>
    encoded,      \* <<[node, stride, addr, addrs, bytes]>>: one node as encode()
                  \* writes it for a stride and addresses given, else <<>>
    alloc,        \* whether the `alloc` feature is enabled in this build
    call,         \* the arguments of the hyphenate_bounded call, or <<>>
    syllables,    \* <<[word, cursor, levels]>>: the Syllables iterator, or <<>>
    status,       \* "idle", "iterating", "done" (next() returned None), "panic"
    yielded,      \* the syllables next() has returned so far (byte strings)
    tex,          \* the pattern source given to parse
    scanner,      \* Scanner.0: the input not yet eaten
    emitted,      \* the patterns parse has handed to f
    pc            \* where parse is: "idle", "outer", "patterns", "returned"

bvars == <<root, nodes, levels, inserted, compressions, blob, encoded>>
hvars == <<alloc, call, syllables, status, yielded>>
pvars == <<tex, scanner, emitted, pc>>
vars  == <<root, nodes, levels, inserted, compressions, blob, encoded,
           alloc, call, syllables, status, yielded,
           tex, scanner, emitted, pc>>

-----------------------------------------------------------------------------
(* Generic helpers.                                                        *)

At(s, i) == s[i + 1]

\* s[from .. to] of the source (from inclusive, to exclusive).
Slice(s, from, to) == SubSeq(s, from + 1, to)

Ok(v) == [ok |-> TRUE, v |-> v]

Panic == [ok |-> FALSE, v |-> <<>>]

Max(a, b) == IF a >= b THEN a ELSE b

Min(a, b) == IF a <= b THEN a ELSE b

SetMax(S) == CHOOSE x \in S : \A y \in S : y <= x

RECURSIVE Concat(_)
Concat(ss) == IF ss = <<>> THEN <<>> ELSE Head(ss) \o Concat(Tail(ss))

RECURSIVE SumSeq(_)
SumSeq(s) == IF s = <<>> THEN 0 ELSE Head(s) + SumSeq(Tail(s))

\* iter().position(|x| x == b): <<i>> for the first index i with s[i] = b.
RECURSIVE PositionFrom(_, _, _)
PositionFrom(s, b, i) ==
    IF i >= Len(s) THEN <<>>
    ELSE IF At(s, i) = b THEN <<i>>
    ELSE PositionFrom(s, b, i + 1)

Position(s, b) == PositionFrom(s, b, 0)

\* slice::starts_with
StartsWith(s, prefix) ==
    /\ Len(prefix) <= Len(s)
    /\ SubSeq(s, 1, Len(prefix)) = prefix

-----------------------------------------------------------------------------
(* Characters and UTF-8 (the std operations the code calls).               *)

\* char::len_utf8 / char::encode_utf8 / str::bytes
encode_utf8(c) ==
    IF c < 128 THEN <<c>>
    ELSE IF c < 2048 THEN <<192 + (c \div 64), 128 + (c % 64)>>
    ELSE IF c < 65536
        THEN <<224 + (c \div 4096), 128 + ((c \div 64) % 64), 128 + (c % 64)>>
    ELSE <<240 + (c \div 262144), 128 + ((c \div 4096) % 64),
           128 + ((c \div 64) % 64), 128 + (c % 64)>>

len_utf8(c) == Len(encode_utf8(c))

RECURSIVE str_bytes(_)
str_bytes(str) ==
    IF str = <<>> THEN <<>> ELSE encode_utf8(Head(str)) \o str_bytes(Tail(str))

\* str::len: the length in bytes
str_len(str) == Len(str_bytes(str))

\* char::to_lowercase: the code points of the lowercase form.  ASCII and
\* Latin-1 capitals, Greek capitals, and three characters whose lowercase
\* form changes length: U+0130 (two code points), U+212A KELVIN SIGN (three
\* bytes to one) and U+023A (two bytes to three).
to_lowercase(c) ==
    IF c >= 65 /\ c <= 90 THEN <<c + 32>>
    ELSE IF c >= 192 /\ c <= 222 /\ c # 215 THEN <<c + 32>>
    ELSE IF c >= 913 /\ c <= 939 /\ c # 930 THEN <<c + 32>>
    ELSE IF c = 304 THEN <<105, 775>>
    ELSE IF c = 8490 THEN <<107>>
    ELSE IF c = 570 THEN <<11365>>
    ELSE <<c>>

\* lib.rs is_char_boundary: (b as i8) >= -0x40
is_char_boundary(b) ==
    LET signed == IF b >= 128 THEN b - 256 ELSE b
    IN  signed >= -64

\* str::is_char_boundary(i) on a str given by its code points
RECURSIVE CharStarts(_, _)
CharStarts(str, off) ==
    IF str = <<>> THEN {off}
    ELSE {off} \cup CharStarts(Tail(str), off + len_utf8(Head(str)))

str_is_char_boundary(str, i) == i \in CharStarts(str, 0)

-----------------------------------------------------------------------------
(* trie.rs: the trie builder.  A builder is [root, nodes, levels]; a Node  *)
(* is [trans, targets, levels] with levels an Option<(offset, len)>.       *)

\* Node::default()
Node_default == [trans |-> <<>>, targets |-> <<>>, levels |-> <<>>]

\* TrieBuilder::new
TrieBuilder_new == [root |-> 0, nodes |-> <<Node_default>>, levels |-> <<>>]

\* insert, the loop over pattern.bytes(): a digit closes a (dist, level)
\* pair, any other byte follows or adds a transition.
RECURSIVE insert_bytes(_, _, _, _, _)
insert_bytes(ns, state, dist, lv, bytes) ==
    IF bytes = <<>> THEN [nodes |-> ns, state |-> state, levels |-> lv]
    ELSE LET b == Head(bytes) IN
        IF b >= 48 /\ b <= 57
        THEN insert_bytes(ns, state, 0, Append(lv, <<dist, b - 48>>), Tail(bytes))
        ELSE LET len  == Len(ns)
                 node == At(ns, state)
                 i    == Position(node.trans, b)
             IN  IF i # <<>>
                 THEN insert_bytes(ns, At(node.targets, i[1]), dist + 1, lv,
                                   Tail(bytes))
                 ELSE insert_bytes(
                        Append([ns EXCEPT ![state + 1] =
                                   [@ EXCEPT !.trans = Append(@, b),
                                             !.targets = Append(@, len)]],
                               Node_default),
                        len, dist + 1, lv, Tail(bytes))

\* (mutant) the loop stops at the first offset that does not match
RECURSIVE level_offset_Negated(_, _, _)
level_offset_Negated(table, lv, offset) ==
    IF offset < Len(table) /\ StartsWith(Slice(table, offset, Len(table)), lv)
    THEN level_offset_Negated(table, lv, offset + 1)
    ELSE offset

\* insert, "Try to reuse existing levels": the first offset at which the
\* table continues with the new vector, or the table's length.
RECURSIVE level_offset(_, _, _)
level_offset(table, lv, offset) ==
    IF offset < Len(table) /\ ~StartsWith(Slice(table, offset, Len(table)), lv)
    THEN level_offset(table, lv, offset + 1)
    ELSE offset

\* (mutant) the new levels are appended also when they were found
insert_AlwaysExtend(b, pattern) ==
    LET r      == insert_bytes(b.nodes, 0, 0, <<>>, str_bytes(pattern))
        offset == level_offset(b.levels, r.levels, 0)
    IN  [root   |-> b.root,
         nodes  |-> [r.nodes EXCEPT ![r.state + 1] =
                        [@ EXCEPT !.levels = <<<<offset, Len(r.levels)>>>>]],
         levels |-> b.levels \o r.levels]

\* TrieBuilder::insert
insert(b, pattern) ==
    LET r      == insert_bytes(b.nodes, 0, 0, <<>>, str_bytes(pattern))
        offset == level_offset(b.levels, r.levels, 0)
        table  == IF offset = Len(b.levels) THEN b.levels \o r.levels
                  ELSE b.levels
    IN  [root   |-> b.root,
         nodes  |-> [r.nodes EXCEPT ![r.state + 1] =
                        [@ EXCEPT !.levels = <<<<offset, Len(r.levels)>>>>]],
         levels |-> table]

\* compress_node: clone the node, compress its targets in order, then look
\* the rewritten node up in `map`, pushing it to `new` when it is absent.
\* Returns the node's new index with the updated map and array.
RECURSIVE compress_node(_, _, _, _)
RECURSIVE compress_targets(_, _, _, _, _)
compress_targets(ns, targets, k, map, new) ==
    IF k >= Len(targets) THEN [targets |-> targets, map |-> map, new |-> new]
    ELSE LET r == compress_node(ns, At(targets, k), map, new)
         IN  compress_targets(ns, [targets EXCEPT ![k + 1] = r.idx], k + 1,
                              r.map, r.new)

\* (mutant) nodes are looked up by their transitions and targets alone
compress_node_IgnoreLevels(ns, node, map, new) ==
    LET r   == compress_targets(ns, At(ns, node).targets, 0, map, new)
        x   == [At(ns, node) EXCEPT !.targets = r.targets]
        key == [x EXCEPT !.levels = <<>>]
    IN  IF key \in DOMAIN r.map
        THEN [idx |-> r.map[key], map |-> r.map, new |-> r.new]
        ELSE [idx |-> Len(r.new),
              map |-> (key :> Len(r.new)) @@ r.map,
              new |-> Append(r.new, x)]

compress_node(ns, node, map, new) ==
    LET r == compress_targets(ns, At(ns, node).targets, 0, map, new)
        x == [At(ns, node) EXCEPT !.targets = r.targets]
    IN  IF x \in DOMAIN r.map
        THEN [idx |-> r.map[x], map |-> r.map, new |-> r.new]
        ELSE [idx |-> Len(r.new),
              map |-> (x :> Len(r.new)) @@ r.map,
              new |-> Append(r.new, x)]

\* TrieBuilder::compress
compress(b) ==
    LET r == compress_node(b.nodes, 0, <<>>, <<>>)
    IN  [root |-> r.idx, nodes |-> r.new, levels |-> b.levels]

-----------------------------------------------------------------------------
(* trie.rs: the binary encoder.                                            *)

\* how_many_bytes: the bytes needed for a signed number; panics beyond 24 bits
how_many_bytes(num) ==
    IF num >= -128 /\ num <= 127 THEN Ok(1)
    ELSE IF num >= -32768 /\ num <= 32767 THEN Ok(2)
    ELSE IF num >= -8388608 /\ num < 8388608 THEN Ok(3)
    ELSE Panic

\* to_be_bytes: the bytes pushed for `num` with `stride` bytes; the unwrap of
\* i8::try_from / i16::try_from panics when num does not fit
to_be_bytes(num, stride) ==
    IF stride = 1
    THEN IF num >= -128 /\ num <= 127 THEN Ok(<<(num + 256) % 256>>) ELSE Panic
    ELSE IF stride = 2
    THEN IF num >= -32768 /\ num <= 32767
         THEN Ok(<<((num + 65536) % 65536) \div 256, (num + 65536) % 256>>)
         ELSE Panic
    ELSE IF stride = 3
    THEN LET unsigned == num + 8388608
         IN  Ok(<<(unsigned \div 65536) % 256, (unsigned \div 256) % 256,
                  unsigned % 256>>)
    ELSE Panic

\* encode, the size a node takes when its targets use `stride` bytes each
node_size(node, stride) ==
    1 + (IF Len(node.trans) >= 31 THEN 1 ELSE 0)
      + 2 * (IF node.levels # <<>> THEN 1 ELSE 0)
      + (1 + stride) * Len(node.trans)

\* encode, "Compute an address estimate for each node": stride 3 assumed
RECURSIVE estimates_from(_, _, _)
estimates_from(ns, i, addr) ==
    IF i >= Len(ns) THEN <<>>
    ELSE <<addr>> \o estimates_from(ns, i + 1, addr + node_size(At(ns, i), 3))

\* (mutant) the fewest bytes any estimated delta needs
RECURSIVE stride_of_Min(_, _, _, _)
stride_of_Min(estimates, i, targets, k) ==
    IF k >= Len(targets) THEN <<1>>
    ELSE LET h    == how_many_bytes(At(estimates, At(targets, k)) - At(estimates, i))
             rest == stride_of_Min(estimates, i, targets, k + 1)
         IN  IF ~h.ok \/ rest = <<>> THEN <<>>
             ELSE IF k + 1 >= Len(targets) THEN <<h.v>>
             ELSE <<Min(h.v, rest[1])>>

\* encode, the stride of node i: the most bytes any estimated delta needs,
\* 1 for a node without targets; <<>> when how_many_bytes panics
RECURSIVE stride_of(_, _, _, _)
stride_of(estimates, i, targets, k) ==
    IF k >= Len(targets) THEN <<1>>
    ELSE LET h    == how_many_bytes(At(estimates, At(targets, k)) - At(estimates, i))
             rest == stride_of(estimates, i, targets, k + 1)
         IN  IF ~h.ok \/ rest = <<>> THEN <<>>
             ELSE IF k + 1 >= Len(targets) THEN <<h.v>>
             ELSE <<Max(h.v, rest[1])>>

\* encode, "compute the final addresses": [addrs, strides, ok]
RECURSIVE layout_from(_, _, _, _)
layout_from(ns, estimates, i, addr) ==
    IF i >= Len(ns) THEN [addrs |-> <<>>, strides |-> <<>>, ok |-> TRUE]
    ELSE LET s == stride_of(estimates, i, At(ns, i).targets, 0)
         IN  IF s = <<>> THEN [addrs |-> <<>>, strides |-> <<>>, ok |-> FALSE]
             ELSE LET rest == layout_from(ns, estimates, i + 1,
                                          addr + node_size(At(ns, i), s[1]))
                  IN  [addrs   |-> <<addr>> \o rest.addrs,
                       strides |-> <<s[1]>> \o rest.strides,
                       ok      |-> rest.ok]

\* (mutant) the target's address is written, not its distance from the node
RECURSIVE encode_targets_Absolute(_, _, _, _, _)
encode_targets_Absolute(addrs, addr, stride, targets, k) ==
    IF k >= Len(targets) THEN Ok(<<>>)
    ELSE LET d    == to_be_bytes(At(addrs, At(targets, k)), stride)
             rest == encode_targets_Absolute(addrs, addr, stride, targets, k + 1)
         IN  IF d.ok /\ rest.ok THEN Ok(d.v \o rest.v) ELSE Panic

\* encode, the target deltas of one node
RECURSIVE encode_targets(_, _, _, _, _)
encode_targets(addrs, addr, stride, targets, k) ==
    IF k >= Len(targets) THEN Ok(<<>>)
    ELSE LET d    == to_be_bytes(At(addrs, At(targets, k)) - addr, stride)
             rest == encode_targets(addrs, addr, stride, targets, k + 1)
         IN  IF d.ok /\ rest.ok THEN Ok(d.v \o rest.v) ELSE Panic

\* encode, "Encode the nodes": one node's bytes
encode_node(node, addrs, addr, stride) ==
    LET n      == Len(node.trans)
        has    == IF node.levels # <<>> THEN 1 ELSE 0
        header == <<has * 128 + (stride % 8) * 32 + Min(n, 31)>>
        count  == IF n >= 31 THEN <<n>> ELSE <<>>
        offset == 4 + node.levels[1][1]
        len    == node.levels[1][2]
        lref   == IF has = 1
                  THEN <<(offset \div 16) % 256, (((offset % 16) * 16) % 256) + len>>
                  ELSE <<>>
        tg     == encode_targets(addrs, addr, stride, node.targets, 0)
    IN  IF /\ (n >= 31 => n <= 255)
           /\ (has = 1 => offset < 4096 /\ len < 16)
           /\ tg.ok
        THEN Ok(header \o count \o lref \o node.trans \o tg.v)
        ELSE Panic

RECURSIVE encode_nodes(_, _, _, _)
encode_nodes(ns, addrs, strides, i) ==
    IF i >= Len(ns) THEN Ok(<<>>)
    ELSE LET e    == encode_node(At(ns, i), addrs, At(addrs, i), At(strides, i))
             rest == encode_nodes(ns, addrs, strides, i + 1)
         IN  IF e.ok /\ rest.ok THEN Ok(e.v \o rest.v) ELSE Panic

\* encode, the estimates and the final layout of a builder
encode_estimates(b) == estimates_from(b.nodes, 0, 4 + Len(b.levels))

encode_layout(b) ==
    layout_from(b.nodes, encode_estimates(b), 0, 4 + Len(b.levels))

\* encode, "Encode the root address": u32 big endian.  The `as u32` cast
\* truncates only addresses of 2^32 and more, beyond any blob modelled here.
encode_root(addr) ==
    <<(addr \div 16777216) % 256, (addr \div 65536) % 256,
      (addr \div 256) % 256, addr % 256>>

\* encode, "Encode the levels": one packed byte per (dist, level)
encode_levels(table) ==
    IF \A k \in 1 .. Len(table) : table[k][1] <= 24 /\ table[k][2] < 10
    THEN Ok([k \in 1 .. Len(table) |-> (table[k][1] * 10 + table[k][2]) % 256])
    ELSE Panic

\* TrieBuilder::encode: Ok(data), or Panic when an assertion or unwrap fails
encode(b) ==
    LET lay == encode_layout(b)
        lv  == encode_levels(b.levels)
        ns  == encode_nodes(b.nodes, lay.addrs, lay.strides, 0)
    IN  IF lay.ok /\ lv.ok /\ ns.ok
        THEN Ok(encode_root(At(lay.addrs, b.root)) \o lv.v \o ns.v)
        ELSE Panic

-----------------------------------------------------------------------------
(* lib.rs: the run-time decoder.  A State is [addr, stride, levels, trans, *)
(* targets]; indexing past the end of the data panics.                     *)

\* (mutant) two bytes are read as an unsigned number
from_be_bytes_Unsigned(buf) ==
    IF Len(buf) = 1
    THEN Ok(IF buf[1] >= 128 THEN buf[1] - 256 ELSE buf[1])
    ELSE IF Len(buf) = 2
    THEN Ok(buf[1] * 256 + buf[2])
    ELSE IF Len(buf) = 3
    THEN Ok(buf[1] * 65536 + buf[2] * 256 + buf[3] - 8388608)
    ELSE Panic

\* from_be_bytes: a signed number of 1, 2 or 3 bytes
from_be_bytes(buf) ==
    IF Len(buf) = 1
    THEN Ok(IF buf[1] >= 128 THEN buf[1] - 256 ELSE buf[1])
    ELSE IF Len(buf) = 2
    THEN LET u == buf[1] * 256 + buf[2]
         IN  Ok(IF u >= 32768 THEN u - 65536 ELSE u)
    ELSE IF Len(buf) = 3
    THEN Ok(buf[1] * 65536 + buf[2] * 256 + buf[3] - 8388608)
    ELSE Panic

\* State::at
State_at(data, addr) ==
    IF addr < 0 \/ addr >= Len(data) THEN Panic
    ELSE LET b0         == At(data, addr)
             has_levels == (b0 \div 128) # 0
             stride     == (b0 \div 32) % 4
             count_lo   == b0 % 32
             ext        == count_lo = 31
             pos1       == addr + 1 + (IF ext THEN 1 ELSE 0)
         IN  IF pos1 > Len(data) \/ (has_levels /\ pos1 + 2 > Len(data))
             THEN Panic
             ELSE LET count  == IF ext THEN At(data, addr + 1) ELSE count_lo
                      offset == At(data, pos1) * 16 + (At(data, pos1 + 1) \div 16)
                      len    == At(data, pos1 + 1) % 16
                      pos2   == pos1 + (IF has_levels THEN 2 ELSE 0)
                      pos3   == pos2 + count
                  IN  IF \/ (has_levels /\ offset + len > Len(data))
                         \/ pos3 + stride * count > Len(data)
                      THEN Panic
                      ELSE Ok([addr    |-> addr,
                               stride  |-> stride,
                               levels  |-> IF has_levels
                                           THEN Slice(data, offset, offset + len)
                                           ELSE <<>>,
                               trans   |-> Slice(data, pos2, pos3),
                               targets |-> Slice(data, pos3,
                                                 pos3 + stride * count)])

\* State::root
State_root(data) ==
    IF Len(data) < 4 THEN Panic
    ELSE State_at(data, data[1] * 16777216 + data[2] * 65536
                        + data[3] * 256 + data[4])

\* State::transition: Ok(<<>>) for None, Ok(<<next>>) for Some(next)
State_transition(data, state, b) ==
    LET idx == Position(state.trans, b)
    IN  IF idx = <<>> THEN Ok(<<>>)
        ELSE LET offset == state.stride * idx[1]
                 delta  == from_be_bytes(
                               Slice(state.targets, offset, offset + state.stride))
             IN  IF ~delta.ok THEN Panic
                 ELSE LET next == State_at(data, state.addr + delta.v)
                      IN  IF next.ok THEN Ok(<<next.v>>) ELSE Panic

\* State::levels: the (cumulative offset, level) pairs of the packed bytes
RECURSIVE levels_from(_, _, _)
levels_from(packed, k, offset) ==
    IF k >= Len(packed) THEN <<>>
    ELSE LET dist == At(packed, k) \div 10
             lvl  == At(packed, k) % 10
         IN  <<<<offset + dist, lvl>>>> \o levels_from(packed, k + 1, offset + dist)

State_levels(state) == levels_from(state.levels, 0, 0)

-----------------------------------------------------------------------------
(* lib.rs: the hyphenator.                                                 *)

\* Bytes::Array holds an array of 40 bytes
InlineCap == 40

\* Bytes::zeros: inline up to 40 bytes, else the heap, or a panic without alloc
Bytes_zeros(len, has_alloc) ==
    IF len <= InlineCap \/ has_alloc THEN Ok([k \in 1 .. len |-> 0]) ELSE Panic

\* (mutant) the char is kept as it is
lowercase_char_Keep(c) == c

\* lowercase_and_dot, "Add the lowercased chars": a char is replaced by its
\* lowercase form only when that is one code point of the same UTF-8 length
lowercase_char(c) ==
    LET lower == to_lowercase(c)
    IN  IF Len(lower) = 1 /\ len_utf8(lower[1]) = len_utf8(c) THEN lower[1] ELSE c

RECURSIVE lowercase_chars(_)
lowercase_chars(word) ==
    IF word = <<>> THEN <<>>
    ELSE <<lowercase_char(Head(word))>> \o lowercase_chars(Tail(word))

\* lowercase_and_dot
lowercase_and_dot(word, has_alloc) ==
    LET dotted == Bytes_zeros(str_len(word) + 2, has_alloc)
        body   == str_bytes(lowercase_chars(word))
        offset == 1 + Len(body)
    IN  IF ~dotted.ok \/ offset # str_len(word) + 1 THEN Panic
        ELSE Ok(<<46>> \o body \o <<46>>)

\* (mutant) the bounds taken as byte counts, not char counts
char_to_byte_bounds_Bytes(word, left_min, right_min) ==
    <<1 + Min(Max(left_min, 1), str_len(word)),
      1 + str_len(word) - Min(Max(right_min, 1), str_len(word))>>

\* char_to_byte_bounds: <<min_idx, max_idx>>
char_to_byte_bounds(word, left_min, right_min) ==
    LET left  == Max(left_min, 1)
        right == Max(right_min, 1)
        n     == Len(word)
        first == SubSeq(word, 1, Min(left, n))
        last  == SubSeq(word, n - Min(right, n) + 1, n)
    IN  <<1 + str_len(first), 1 + str_len(word) - str_len(last)>>

\* (mutant) the slot is overwritten instead of raised
RECURSIVE raise_levels_Overwrite(_, _, _, _, _, _)
raise_levels_Overwrite(lv, pairs, k, start, min_idx, max_idx) ==
    IF k >= Len(pairs) THEN Ok(lv)
    ELSE LET split == start + At(pairs, k)[1]
             level == At(pairs, k)[2]
         IN  IF split >= min_idx /\ split <= max_idx
             THEN IF split - 2 < 0 \/ split - 2 >= Len(lv) THEN Panic
                  ELSE raise_levels_Overwrite(
                           [lv EXCEPT ![split - 1] = level],
                           pairs, k + 1, start, min_idx, max_idx)
             ELSE raise_levels_Overwrite(lv, pairs, k + 1, start, min_idx,
                                         max_idx)

\* (mutant) the slot after the one of the split is raised
RECURSIVE raise_levels_OffByOne(_, _, _, _, _, _)
raise_levels_OffByOne(lv, pairs, k, start, min_idx, max_idx) ==
    IF k >= Len(pairs) THEN Ok(lv)
    ELSE LET split == start + At(pairs, k)[1]
             level == At(pairs, k)[2]
         IN  IF split >= min_idx /\ split <= max_idx
             THEN IF split - 1 < 0 \/ split - 1 >= Len(lv) THEN Panic
                  ELSE raise_levels_OffByOne(
                           [lv EXCEPT ![split] = Max(@, level)],
                           pairs, k + 1, start, min_idx, max_idx)
             ELSE raise_levels_OffByOne(lv, pairs, k + 1, start, min_idx,
                                        max_idx)

\* hyphenate_bounded, the loop over state.levels(): raise the slot of every
\* split inside the bounds; indexing outside the level slice panics
RECURSIVE raise_levels(_, _, _, _, _, _)
raise_levels(lv, pairs, k, start, min_idx, max_idx) ==
    IF k >= Len(pairs) THEN Ok(lv)
    ELSE LET split == start + At(pairs, k)[1]
             level == At(pairs, k)[2]
         IN  IF split >= min_idx /\ split <= max_idx
             THEN IF split - 2 < 0 \/ split - 2 >= Len(lv) THEN Panic
                  ELSE raise_levels(
                           [lv EXCEPT ![split - 1] = Max(@, level)],
                           pairs, k + 1, start, min_idx, max_idx)
             ELSE raise_levels(lv, pairs, k + 1, start, min_idx, max_idx)

\* hyphenate_bounded, the loop over &dotted[start..]: follow transitions
\* until one is absent
RECURSIVE walk_from(_, _, _, _, _, _, _, _)
walk_from(data, dotted, start, pos, state, lv, min_idx, max_idx) ==
    IF pos >= Len(dotted) THEN Ok(lv)
    ELSE LET t == State_transition(data, state, At(dotted, pos))
         IN  IF ~t.ok THEN Panic
             ELSE IF t.v = <<>> THEN Ok(lv)
             ELSE LET r == raise_levels(lv, State_levels(t.v[1]), 0, start,
                                        min_idx, max_idx)
                  IN  IF ~r.ok THEN Panic
                      ELSE walk_from(data, dotted, start, pos + 1, t.v[1], r.v,
                                     min_idx, max_idx)

\* hyphenate_bounded, "Start pattern matching at each character boundary"
RECURSIVE match_from(_, _, _, _, _, _, _)
match_from(data, dotted, rootstate, start, lv, min_idx, max_idx) ==
    IF start >= Len(dotted) THEN Ok(lv)
    ELSE IF ~is_char_boundary(At(dotted, start))
    THEN match_from(data, dotted, rootstate, start + 1, lv, min_idx, max_idx)
    ELSE LET r == walk_from(data, dotted, start, start, rootstate, lv,
                            min_idx, max_idx)
         IN  IF ~r.ok THEN Panic
             ELSE match_from(data, dotted, rootstate, start + 1, r.v,
                             min_idx, max_idx)

\* hyphenate_bounded: Ok(the Syllables iterator) or Panic
hyphenate_bounded(data, word, left_min, right_min, has_alloc) ==
    LET rootstate == State_root(data)
        dotted    == lowercase_and_dot(word, has_alloc)
        bounds    == char_to_byte_bounds(word, left_min, right_min)
        zeros     == Bytes_zeros(Max(str_len(word) - 1, 0), has_alloc)
    IN  IF ~rootstate.ok \/ ~dotted.ok \/ ~zeros.ok THEN Panic
        ELSE LET r == match_from(data, dotted.v, rootstate.v, 0, zeros.v,
                                 bounds[1], bounds[2])
             IN  IF ~r.ok THEN Panic
                 ELSE Ok([word |-> word, cursor |-> 0, levels |-> r.v])

\* Syllables::splits
splits(s) == Cardinality({k \in 1 .. Len(s.levels) : s.levels[k] % 2 = 1})

\* Syllables::size_hint: <<len, Some(len)>>
size_hint(s) ==
    LET len == IF s.word = <<>> THEN 0 ELSE 1 + splits(s)
    IN  <<len, <<len>>>>

\* Iterator::any on Bytes: the bytes left after consuming up to and including
\* the first odd level
RECURSIVE any_odd(_)
any_odd(lv) ==
    IF lv = <<>> THEN [found |-> FALSE, rest |-> <<>>]
    ELSE IF Head(lv) % 2 = 1 THEN [found |-> TRUE, rest |-> Tail(lv)]
    ELSE any_odd(Tail(lv))

\* (mutant) the end is one byte short also when no odd level was found
Syllables_next_AlwaysFound(s) ==
    LET a     == any_odd(s.levels)
        start == s.cursor
        end   == Max(str_len(s.word) - Len(a.rest) - 1, 0)
        after == [word |-> s.word, cursor |-> end, levels |-> a.rest]
    IN  IF start < end
        THEN IF str_is_char_boundary(s.word, start)
                /\ str_is_char_boundary(s.word, end)
             THEN [s |-> after, ret |-> Ok(<<Slice(str_bytes(s.word), start, end)>>)]
             ELSE [s |-> after, ret |-> Panic]
        ELSE [s |-> after, ret |-> Ok(<<>>)]

\* Syllables::next: [s: the iterator afterwards, ret: Ok(None | Some(bytes))],
\* or a panic of the str slice
Syllables_next(s) ==
    LET a     == any_odd(s.levels)
        start == s.cursor
        end   == str_len(s.word) - Len(a.rest) - (IF a.found THEN 1 ELSE 0)
        after == [word |-> s.word, cursor |-> end, levels |-> a.rest]
    IN  IF start < end
        THEN IF str_is_char_boundary(s.word, start)
                /\ str_is_char_boundary(s.word, end)
             THEN [s |-> after, ret |-> Ok(<<Slice(str_bytes(s.word), start, end)>>)]
             ELSE [s |-> after, ret |-> Panic]
        ELSE [s |-> after, ret |-> Ok(<<>>)]

-----------------------------------------------------------------------------
(* tex.rs: the pattern parser.                                             *)

\* char::is_whitespace: the White_Space code points
is_whitespace(c) ==
    \/ c >= 9 /\ c <= 13
    \/ c \in {32, 133, 160, 5760, 8232, 8233, 8239, 8287, 12288}
    \/ c >= 8192 /\ c <= 8202

\* Scanner::eat_while: how many leading chars of `str` satisfy the predicate
\* named `which`: "line" (c != '\n'), "pattern" (c is none of '}', '%' and
\* whitespace), "space" (char::is_whitespace)
eat_pred(which, c) ==
    IF which = "line" THEN c # 10
    ELSE IF which = "pattern" THEN c # 125 /\ c # 37 /\ ~is_whitespace(c)
    ELSE is_whitespace(c)

RECURSIVE eat_while(_, _)
eat_while(str, which) ==
    IF str # <<>> /\ eat_pred(which, Head(str))
    THEN 1 + eat_while(Tail(str), which)
    ELSE 0

\* the str left after its first n chars
Drop(str, n) == SubSeq(str, n + 1, Len(str))

\* "patterns{"
PatternsOpen == <<112, 97, 116, 116, 101, 114, 110, 115, 123>>

-----------------------------------------------------------------------------
(* Bounds and input pools.                                                 *)

\* insert() calls per builder
MaxInserts == 3

\* compress() calls per builder
MaxCompress == 2

\* chars of a hyphenated word
MaxWordChars == 3

\* the largest left_min / right_min passed to hyphenate_bounded
MaxMin == 2

\* bytes of the longest word hyphenated
MaxLongWord == 43

\* segments of a pattern source given to parse
MaxSegments == 3

\* chars of the words two matchers are compared on
MaxProbeChars == 2

\* the transitions of the widest node
MaxWidth == 32

\* The patterns given to insert: "a1b", "a2b", "b1b", "1ba", "\u{e9}1b", "a1a1"
PatternPool ==
    << <<97, 49, 98>>, <<97, 50, 98>>, <<98, 49, 98>>, <<49, 98, 97>>,
       <<233, 49, 98>>, <<97, 49, 97, 49>> >>

\* The pattern files of the languages compiled in, in file order:
\*   "a1b" "a2ba" "1ba" "1\u{e9}" ".b1b"
\*   "1a" "1b1" "1\u{e9}" "\u{e9}3b" "2bb."
\*   "b1\u{e9}1" "4aa" "a3a." "\u{e9}a2" ".a1b"
LangPatterns ==
    { << <<97, 49, 98>>, <<97, 50, 98, 97>>, <<49, 98, 97>>, <<49, 233>>,
         <<46, 98, 49, 98>> >>,
      << <<49, 97>>, <<49, 98, 49>>, <<49, 233>>, <<233, 51, 98>>,
         <<50, 98, 98, 46>> >>,
      << <<98, 49, 233, 49>>, <<52, 97, 97>>, <<97, 51, 97, 46>>,
         <<233, 97, 50>>, <<46, 97, 49, 98>> >> }

\* The chars of hyphenated words: a, b, U+00C9 (capital of U+00E9) and
\* U+212A KELVIN SIGN (its lowercase form, k, is shorter)
WordChars == {97, 98, 201, 8490}

SeqsUpTo(S, n) == UNION {[1 .. k -> S] : k \in 0 .. n}

\* The words two matchers are compared on, over a, b and U+00E9
ProbeWords == SeqsUpTo({97, 98, 233}, MaxProbeChars)

\* a word of n letters a
LongWord(n) == [k \in 1 .. n |-> 97]

Words == SeqsUpTo(WordChars, MaxWordChars)

\* words around the inline capacity of Bytes
LongWords == {LongWord(n) : n \in (InlineCap - 4) .. MaxLongWord}

\* The pieces pattern sources are made of: "\patterns{", "a1b", " ", "%",
\* a newline, "}"
TexSegments ==
    { <<92>> \o PatternsOpen, <<97, 49, 98>>, <<32>>, <<37>>, <<10>>, <<125>> }

TexSources == {Concat(ss) : ss \in SeqsUpTo(TexSegments, MaxSegments)}

-----------------------------------------------------------------------------
(* The state machine.                                                      *)

Builder == [root |-> root, nodes |-> nodes, levels |-> levels]

\* TrieBuilder::new followed by insert for each pattern of a list
RECURSIVE insert_all(_, _)
insert_all(b, patterns) ==
    IF patterns = <<>> THEN b
    ELSE insert_all(insert(b, Head(patterns)), Tail(patterns))

BuilderIdle ==
    /\ root = TrieBuilder_new.root
    /\ nodes = TrieBuilder_new.nodes
    /\ levels = TrieBuilder_new.levels
    /\ inserted = <<>>
    /\ compressions = 0
    /\ blob = <<>>
    /\ encoded = <<>>

HyphIdle ==
    /\ alloc = TRUE
    /\ call = <<>>
    /\ syllables = <<>>
    /\ status = "idle"
    /\ yielded = <<>>

ParseIdle ==
    /\ tex = <<>>
    /\ scanner = <<>>
    /\ emitted = <<>>
    /\ pc = "idle"

(* ---- the build pipeline: insert*, compress*, encode ---- *)

BuildInit == BuilderIdle /\ HyphIdle /\ ParseIdle

\* builder.insert(pattern)
Insert(pattern) ==
    /\ Len(inserted) < MaxInserts
    /\ compressions = 0
    /\ blob = <<>>
    /\ encoded = <<>>
    /\ LET b == insert(Builder, pattern)
       IN  /\ root' = b.root
           /\ nodes' = b.nodes
           /\ levels' = b.levels
    /\ inserted' = Append(inserted, pattern)
    /\ UNCHANGED <<compressions, blob, encoded>>
    /\ UNCHANGED hvars
    /\ UNCHANGED pvars

\* builder.compress()
Compress ==
    /\ compressions < MaxCompress
    /\ blob = <<>>
    /\ encoded = <<>>
    /\ LET b == compress(Builder)
       IN  /\ root' = b.root
           /\ nodes' = b.nodes
           /\ levels' = b.levels
    /\ compressions' = compressions + 1
    /\ UNCHANGED <<inserted, blob, encoded>>
    /\ UNCHANGED hvars
    /\ UNCHANGED pvars

\* builder.encode(): the blob, or the panic, is kept
Encode ==
    /\ blob = <<>>
    /\ encoded = <<>>
    /\ blob' = <<encode(Builder)>>
    /\ UNCHANGED <<root, nodes, levels, inserted, compressions, encoded>>
    /\ UNCHANGED hvars
    /\ UNCHANGED pvars

BuildNext ==
    \/ \E k \in 1 .. Len(PatternPool) : Insert(PatternPool[k])
    \/ Compress
    \/ Encode

BuildSpec == BuildInit /\ [][BuildNext]_vars

(* ---- the build pipeline over a trie with wide nodes ---- *)

\* the k-th letter of the wide patterns: ':' and the chars after it
WideLetter(k) == 58 + k

\* the n-th wide pattern: the first letter, a second letter of its own and
\* the level digit 1 or 2 in turns, as in ":;2"
WidePattern(n) == <<WideLetter(0), WideLetter(n), 49 + (n % 2)>>

\* builder.insert(pattern) for the next wide pattern
WideInsert ==
    /\ Len(inserted) < MaxWidth
    /\ compressions = 0
    /\ blob = <<>>
    /\ encoded = <<>>
    /\ LET b == insert(Builder, WidePattern(Len(inserted)))
       IN  /\ root' = b.root
           /\ nodes' = b.nodes
           /\ levels' = b.levels
    /\ inserted' = Append(inserted, WidePattern(Len(inserted)))
    /\ UNCHANGED <<compressions, blob, encoded>>
    /\ UNCHANGED hvars
    /\ UNCHANGED pvars

\* The deltas of the farthest target of a node: the ends of the ranges of
\* one, two and three bytes
FarDeltas ==
    {-8388608, -32769, -32768, -129, -128, 127, 128, 32767, 32768, 8388607}

\* encode, "Encode the nodes", for one node of the builder when the layout
\* gave it the stride `stride` and put its targets up to `far` bytes away:
\* the target that is node t lies t bytes nearer than `far`
EncodeNode(i, stride, far) ==
    /\ blob = <<>>
    /\ encoded = <<>>
    /\ how_many_bytes(far).v <= stride
    /\ LET addr  == SetMax({-d : d \in FarDeltas})
           addrs == [t \in 1 .. Len(nodes) |->
                        addr + (IF far >= 0 THEN Max(far - (t - 1), 0)
                                ELSE Min(far + (t - 1), 0))]
       IN  encoded' = <<[node   |-> i,
                         stride |-> stride,
                         addr   |-> addr,
                         addrs  |-> addrs,
                         bytes  |-> encode_node(At(nodes, i), addrs, addr, stride)]>>
    /\ UNCHANGED <<root, nodes, levels, inserted, compressions, blob>>
    /\ UNCHANGED hvars
    /\ UNCHANGED pvars

WideNext ==
    \/ WideInsert
    \/ Compress
    \/ Encode
    \/ \E i \in 0 .. Len(nodes) - 1, stride \in 1 .. 3, far \in FarDeltas :
          EncodeNode(i, stride, far)

WideSpec == BuildInit /\ [][WideNext]_vars

(* ---- hyphenation over a compiled language ---- *)

\* A language's blob is its pattern file inserted, compressed and encoded.
LangInit ==
    \E patterns \in LangPatterns :
        LET b == compress(insert_all(TrieBuilder_new, patterns))
        IN  /\ root = b.root
            /\ nodes = b.nodes
            /\ levels = b.levels
            /\ inserted = patterns
            /\ compressions = 1
            /\ blob = <<encode(b)>>
            /\ encoded = <<>>

HyphInit ==
    /\ LangInit
    /\ alloc = TRUE
    /\ call = <<>>
    /\ syllables = <<>>
    /\ status = "idle"
    /\ yielded = <<>>
    /\ ParseIdle

\* hyphenate_bounded(word, lang, left_min, right_min)
Hyphenate(word, left_min, right_min) ==
    /\ status = "idle"
    /\ blob # <<>>
    /\ blob[1].ok
    /\ call' = <<[word |-> word, left_min |-> left_min, right_min |-> right_min]>>
    /\ LET r == hyphenate_bounded(blob[1].v, word, left_min, right_min, alloc)
       IN  IF r.ok
           THEN syllables' = <<r.v>> /\ status' = "iterating"
           ELSE syllables' = <<>> /\ status' = "panic"
    /\ yielded' = <<>>
    /\ UNCHANGED alloc
    /\ UNCHANGED bvars
    /\ UNCHANGED pvars

\* syllables.next(), also after it has returned None
SyllablesNext ==
    /\ status \in {"iterating", "done"}
    /\ LET r == Syllables_next(syllables[1])
       IN  /\ syllables' = <<r.s>>
           /\ IF ~r.ret.ok THEN status' = "panic" /\ yielded' = yielded
              ELSE IF r.ret.v = <<>> THEN status' = "done" /\ yielded' = yielded
              ELSE status' = "iterating" /\ yielded' = Append(yielded, r.ret.v[1])
    /\ UNCHANGED <<alloc, call>>
    /\ UNCHANGED bvars
    /\ UNCHANGED pvars

HyphNext ==
    \/ \E word \in Words, left_min \in 0 .. MaxMin, right_min \in 0 .. MaxMin :
          Hyphenate(word, left_min, right_min)
    \/ SyllablesNext

HyphSpec == HyphInit /\ [][HyphNext]_vars

(* ---- hyphenation of long words, with and without the alloc feature ---- *)

LongInit ==
    /\ LangInit
    /\ alloc \in BOOLEAN
    /\ call = <<>>
    /\ syllables = <<>>
    /\ status = "idle"
    /\ yielded = <<>>
    /\ ParseIdle

LongNext ==
    \/ \E word \in LongWords, left_min \in 1 .. MaxMin, right_min \in 1 .. MaxMin :
          Hyphenate(word, left_min, right_min)
    \/ SyllablesNext

LongSpec == LongInit /\ [][LongNext]_vars

(* ---- parsing a pattern source ---- *)

ParseInit ==
    /\ BuilderIdle
    /\ HyphIdle
    /\ tex \in TexSources
    /\ scanner = tex
    /\ emitted = <<>>
    /\ pc = "outer"

\* parse, one turn of `while let Some(c) = s.eat()`
ParseOuter ==
    /\ pc = "outer"
    /\ IF scanner = <<>>
       THEN pc' = "returned" /\ scanner' = scanner
       ELSE LET c    == Head(scanner)
                rest == Tail(scanner)
            IN  IF c = 37
                THEN /\ scanner' = Drop(rest, eat_while(rest, "line"))
                     /\ pc' = "outer"
                ELSE IF c = 92 /\ StartsWith(rest, PatternsOpen)
                THEN /\ scanner' = Drop(rest, Len(PatternsOpen))
                     /\ pc' = "patterns"
                ELSE /\ scanner' = rest
                     /\ pc' = "outer"
    /\ UNCHANGED <<tex, emitted>>
    /\ UNCHANGED bvars
    /\ UNCHANGED hvars

\* parse, one turn of the `loop` inside a \patterns{ block
ParsePatterns ==
    /\ pc = "patterns"
    /\ LET n     == eat_while(scanner, "pattern")
           pat   == SubSeq(scanner, 1, n)
           after == Drop(scanner, n)
       IN  /\ emitted' = IF pat # <<>> THEN Append(emitted, pat) ELSE emitted
           /\ IF after # <<>> /\ Head(after) = 125
              THEN scanner' = Tail(after) /\ pc' = "outer"
              ELSE IF after # <<>> /\ Head(after) = 37
              THEN /\ scanner' = Drop(Tail(after), eat_while(Tail(after), "line"))
                   /\ pc' = "patterns"
              ELSE LET rest == IF after = <<>> THEN after ELSE Tail(after)
                   IN  /\ scanner' = Drop(rest, eat_while(rest, "space"))
                       /\ pc' = "patterns"
    /\ UNCHANGED tex
    /\ UNCHANGED bvars
    /\ UNCHANGED hvars

ParseNext == ParseOuter \/ ParsePatterns

\* parse is one sequential call: it keeps running while it has a step to take
ParseSpec == ParseInit /\ [][ParseNext]_vars /\ WF_vars(ParseNext)

-----------------------------------------------------------------------------
(* Properties of hyphenation.                                              *)

\* Syllables::join: the iterator drained, `sep` between the syllables
RECURSIVE join_rest(_, _)
join_rest(s, sep) ==
    LET r == Syllables_next(s)
    IN  IF ~r.ret.ok THEN Panic
        ELSE IF r.ret.v = <<>> THEN Ok(<<>>)
        ELSE LET rest == join_rest(r.s, sep)
             IN  IF rest.ok THEN Ok(sep \o r.ret.v[1] \o rest.v) ELSE Panic

Syllables_join(s, sep) ==
    LET first == Syllables_next(s)
    IN  IF ~first.ret.ok THEN Panic
        ELSE IF first.ret.v = <<>> THEN join_rest(first.s, sep)
        ELSE LET rest == join_rest(first.s, sep)
             IN  IF rest.ok THEN Ok(first.ret.v[1] \o rest.v) ELSE Panic

Iterating == status \in {"iterating", "done"}

\* the iterator as hyphenate_bounded returned it: no next() call yet
Fresh == status = "iterating" /\ yielded = <<>>

WordBytes == str_bytes(call[1].word)

RECURSIVE Without(_, _)
Without(bytes, b) ==
    IF bytes = <<>> THEN <<>>
    ELSE IF Head(bytes) = b THEN Without(Tail(bytes), b)
    ELSE <<Head(bytes)>> \o Without(Tail(bytes), b)

\* C1: the syllables yielded so far followed by the join, with an empty
\* separator, of those still to come are the word byte for byte; and a join
\* with "-" gives the word back once the separator is removed.
C1_JoinIdentity ==
    Iterating =>
        LET j == Syllables_join(syllables[1], <<>>)
            h == Syllables_join(syllables[1], <<45>>)
        IN  /\ j.ok
            /\ Concat(yielded) \o j.v = WordBytes
            /\ h.ok
            /\ Concat(yielded) \o Without(h.v, 45) = WordBytes
            /\ (status = "done" => Concat(yielded) = WordBytes)

C1_Witness ==
    /\ status = "done"
    /\ Len(yielded) >= 3
    /\ \E k \in 1 .. Len(call[1].word) : call[1].word[k] > 127

OddPositions(lv) == {k \in 1 .. Len(lv) : lv[k] % 2 = 1}

\* the byte positions at which the word is broken: the ends of the syllables
\* yielded, and the odd levels not yet consumed
RECURSIVE PrefixSums(_, _)
PrefixSums(ss, acc) ==
    IF ss = <<>> THEN {}
    ELSE {acc + Len(Head(ss))} \cup PrefixSums(Tail(ss), acc + Len(Head(ss)))

YieldedBreaks == PrefixSums(yielded, 0) \ {Len(WordBytes)}

RemainingBreaks ==
    LET lv == syllables[1].levels
    IN  {Len(WordBytes) - Len(lv) + k - 1 : k \in {j \in 1 .. Len(lv) : lv[j] % 2 = 1}}

Breaks == YieldedBreaks \cup RemainingBreaks

\* the bytes of the first / last n chars of a word
FirstBytes(word, n) == str_len(SubSeq(word, 1, Min(n, Len(word))))

LastBytes(word, n) ==
    str_len(SubSeq(word, Len(word) - Min(n, Len(word)) + 1, Len(word)))

\* C2: every break leaves at least left_min chars before it and right_min
\* chars after it, and a word of fewer than left_min + right_min chars is
\* not broken.
C2_PrefixBound ==
    Iterating =>
        LET c == call[1]
        IN  /\ \A b \in Breaks :
                  /\ b >= FirstBytes(c.word, c.left_min)
                  /\ b <= Len(WordBytes) - LastBytes(c.word, c.right_min)
            /\ (Len(c.word) < c.left_min + c.right_min => Breaks = {})

C2_Witness ==
    /\ Fresh
    /\ Len(call[1].word) = 3
    /\ call[1].left_min = 2
    /\ call[1].right_min = 1
    /\ call[1].word[1] > 127
    /\ RemainingBreaks = {FirstBytes(call[1].word, 2)}
    /\ FirstBytes(call[1].word, 1) \in
          OddPositions(hyphenate_bounded(blob[1].v, call[1].word, 1, 1,
                                         alloc).v.levels)

\* how many syllables further next() calls yield
RECURSIVE RemainingYields(_)
RemainingYields(s) ==
    LET r == Syllables_next(s)
    IN  IF ~r.ret.ok \/ r.ret.v = <<>> THEN 0 ELSE 1 + RemainingYields(r.s)

\* C3: size_hint is (n, Some(n)) with n the number of syllables still to be
\* yielded, at every point of the iteration; on a fresh iterator n is one
\* more than the number of odd levels, and 0 for the empty word.
C3_ExactSize ==
    Iterating =>
        /\ size_hint(syllables[1]) =
              <<RemainingYields(syllables[1]), <<RemainingYields(syllables[1])>>>>
        /\ (Fresh =>
              size_hint(syllables[1])[1] =
                  IF call[1].word = <<>> THEN 0 ELSE 1 + Cardinality(RemainingBreaks))

\* the word length the crate documentation gives as the limit without alloc
DocMaxWordLen == 41

\* C4: without alloc, hyphenate_bounded panics exactly for words of more
\* than 41 bytes.
C4_WordLengthLimit ==
    (call # <<>> /\ ~alloc) =>
        ((status = "panic") <=> (Len(WordBytes) > DocMaxWordLen))

\* the lowercase form of each char is one code point of the same length
SameLengthLowercase(word) ==
    \A k \in 1 .. Len(word) :
        /\ Len(to_lowercase(word[k])) = 1
        /\ len_utf8(to_lowercase(word[k])[1]) = len_utf8(word[k])

Lowercased(word) == [k \in 1 .. Len(word) |-> to_lowercase(word[k])[1]]

\* C5: a word whose chars all have a single-code-point lowercase form of the
\* same UTF-8 length is broken at the same byte positions as its lowercased
\* form.
C5_CaseIndependence ==
    (Fresh /\ SameLengthLowercase(call[1].word)) =>
        LET c == call[1]
            l == hyphenate_bounded(blob[1].v, Lowercased(c.word), c.left_min,
                                   c.right_min, alloc)
        IN  /\ l.ok
            /\ OddPositions(l.v.levels) = OddPositions(syllables[1].levels)

C5_Witness ==
    /\ Fresh
    /\ SameLengthLowercase(call[1].word)
    /\ Lowercased(call[1].word) # call[1].word
    /\ OddPositions(syllables[1].levels) # {}

\* the patterns stored in a trie: the letter bytes leading from `node` to
\* each node that has levels, with that node's (dist, level) vector
RECURSIVE TriePatterns(_, _, _, _)
TriePatterns(ns, table, node, prefix) ==
    LET n    == At(ns, node)
        here == IF n.levels = <<>> THEN {}
                ELSE {[letters |-> prefix,
                       digits  |-> Slice(table, n.levels[1][1],
                                         n.levels[1][1] + n.levels[1][2])]}
    IN  here \cup
        UNION {TriePatterns(ns, table, At(n.targets, k),
                            Append(prefix, At(n.trans, k)))
                   : k \in 0 .. Len(n.trans) - 1}

StoredPatterns == TriePatterns(nodes, levels, root, <<>>)

\* the letters before the j-th digit of a pattern
LetterOffset(digits, j) == SumSeq([m \in 1 .. j |-> digits[m][1]])

IsLeadByte(b) == b < 128 \/ b >= 192

\* the start indices at which a pattern's letters occur in the dotted word
Occurrences(p, dotted) ==
    {s \in 0 .. Len(dotted) - 1 :
        /\ IsLeadByte(At(dotted, s))
        /\ s + Len(p.letters) <= Len(dotted)
        /\ Slice(dotted, s, s + Len(p.letters)) = p.letters}

\* the levels the stored patterns assert for slot i of the level vector
LiangLevels(dotted, i, min_idx, max_idx) ==
    UNION { UNION { { p.digits[j][2] :
                        j \in {j \in 1 .. Len(p.digits) :
                                  /\ s + LetterOffset(p.digits, j) - 2 = i
                                  /\ s + LetterOffset(p.digits, j) >= min_idx
                                  /\ s + LetterOffset(p.digits, j) <= max_idx} }
                    : s \in Occurrences(p, dotted) }
            : p \in StoredPatterns }

LiangLevel(dotted, i, min_idx, max_idx) ==
    SetMax(LiangLevels(dotted, i, min_idx, max_idx) \cup {0})

\* C10: each level is the highest level digit that a stored pattern, matched
\* at a lead byte of the dotted word, puts on that slot within the bounds (0
\* when there is none), and the word is broken after byte i + 1 exactly when
\* level i is odd.
C10_LiangMatching ==
    Iterating =>
        LET c      == call[1]
            dotted == lowercase_and_dot(c.word, alloc).v
            bounds == char_to_byte_bounds(c.word, c.left_min, c.right_min)
            want   == [i \in 0 .. Len(WordBytes) - 2 |->
                          LiangLevel(dotted, i, bounds[1], bounds[2])]
        IN  /\ Fresh =>
                  /\ Len(syllables[1].levels) = Max(Len(WordBytes) - 1, 0)
                  /\ \A i \in 0 .. Len(WordBytes) - 2 :
                        At(syllables[1].levels, i) = want[i]
            /\ Breaks = {i + 1 : i \in {i \in 0 .. Len(WordBytes) - 2 :
                                            want[i] % 2 = 1}}

\* a slot on which two patterns put different levels, the higher one first
C10_Witness ==
    /\ Fresh
    /\ call[1].left_min = 1
    /\ call[1].right_min = 1
    /\ LET dotted == lowercase_and_dot(call[1].word, alloc).v
           bounds == char_to_byte_bounds(call[1].word, 1, 1)
       IN  \E i \in 0 .. Len(WordBytes) - 2 :
               /\ Cardinality(LiangLevels(dotted, i, bounds[1], bounds[2])) >= 2
               /\ At(syllables[1].levels, i) = 2
    /\ \E k \in 1 .. Len(call[1].word) : call[1].word[k] > 127

-----------------------------------------------------------------------------
(* Properties of the parser.                                               *)

\* C6: when the input ends inside a \patterns{ block, parse ends, and ends
\* in a failure (MalformedInput).
C6_UnclosedBlockFails ==
    (pc = "patterns" /\ scanner = <<>>) ~> (pc = "failed")

-----------------------------------------------------------------------------
(* Properties of the builder, the compressor and the encoder.              *)

\* what walking a trie from `node` gives for each byte string that leads to
\* a node: the string, and the level vector of the node reached (or none)
RECURSIVE TrieWalks(_, _, _, _)
TrieWalks(ns, table, node, prefix) ==
    LET n == At(ns, node)
        v == IF n.levels = <<>> THEN <<>>
             ELSE <<Slice(table, n.levels[1][1], n.levels[1][1] + n.levels[1][2])>>
    IN  {[path |-> prefix, levels |-> v]} \cup
        UNION {TrieWalks(ns, table, At(n.targets, k), Append(prefix, At(n.trans, k)))
                   : k \in 0 .. Len(n.trans) - 1}

\* the levels a matcher over the encoding of a builder assigns to a word
MatcherLevels(b, word) ==
    LET data == encode(b)
        h    == hyphenate_bounded(data.v, word, 1, 1, TRUE)
    IN  IF data.ok /\ h.ok THEN <<h.v.levels>> ELSE <<>>

\* C7: the first compress() after the inserts keeps, for every byte string,
\* whether a walk from the root reaches a node and the level vector of the
\* node reached; so the matchers before and after assign the same levels.
C7_CompressionSemantics ==
    [][(compressions = 0 /\ compressions' = 1) =>
          /\ TrieWalks(nodes', levels', root', <<>>) = TrieWalks(nodes, levels, 0, <<>>)
          /\ \A word \in ProbeWords :
                /\ MatcherLevels(Builder, word) # <<>>
                /\ MatcherLevels([root |-> root', nodes |-> nodes',
                                  levels |-> levels'], word)
                      = MatcherLevels(Builder, word)]_vars

\* a compression that merged nodes, among them nodes with transitions
C7_Witness ==
    /\ compressions = 1
    /\ Len(inserted) = 3
    /\ Len(nodes) + 2 <= Len(insert_all(TrieBuilder_new, inserted).nodes)
    /\ \E w \in ProbeWords :
          \E k \in 1 .. Len(MatcherLevels(Builder, w)[1]) :
              MatcherLevels(Builder, w)[1][k] # 0

\* the address held by the first four bytes of a blob
RootAddr(data) ==
    data[1] * 16777216 + data[2] * 65536 + data[3] * 256 + data[4]

\* the addresses at which encode wrote the nodes of the builder
NodeStarts == {encode_layout(Builder).addrs[i] : i \in 1 .. Len(nodes)}

\* the level reference (off, len) in the bytes of the node at addr, if any
LevelRef(data, addr) ==
    LET b0   == At(data, addr)
        pos1 == addr + 1 + (IF b0 % 32 = 31 THEN 1 ELSE 0)
    IN  IF b0 \div 128 = 0 \/ pos1 + 2 > Len(data) THEN <<>>
        ELSE <<At(data, pos1) * 16 + (At(data, pos1 + 1) \div 16),
               At(data, pos1 + 1) % 16>>

\* the addresses A + d for the target deltas d of the node at address A;
\* a node or a delta that cannot be decoded gives the address -1
TargetAddrs(data, addr) ==
    LET st == State_at(data, addr)
    IN  IF ~st.ok THEN {-1}
        ELSE {LET d == from_be_bytes(Slice(st.v.targets, st.v.stride * k,
                                           st.v.stride * (k + 1)))
              IN  IF d.ok /\ addr + d.v >= 0 THEN addr + d.v ELSE -1
                  : k \in 0 .. Len(st.v.trans) - 1}

\* the addresses reached from `todo` over target deltas, walking on from
\* the addresses that start a node
RECURSIVE ReachableAddrs(_, _, _, _)
ReachableAddrs(data, starts, todo, seen) ==
    IF todo = {} THEN seen
    ELSE LET a    == CHOOSE x \in todo : TRUE
             next == IF a \in starts THEN TargetAddrs(data, a) ELSE {}
         IN  ReachableAddrs(data, starts, (todo \cup next) \ (seen \cup {a}),
                            seen \cup {a})

\* the nodes of a blob reachable from its root
ReachableNodes(data) ==
    ReachableAddrs(data, NodeStarts, {RootAddr(data)}, {}) \cap NodeStarts

\* C8: in every blob encode() produces, the root address and every address
\* A + d, for d a target delta of a node at A reachable from the root, lie in
\* [0, blob_len) and start an encoded node; every level reference (off, len)
\* of a reachable node lies in the level table that starts at byte 4, and
\* off + len <= blob_len.
C8_PointerSanity ==
    (blob # <<>> /\ blob[1].ok) =>
        LET data == blob[1].v
        IN  /\ Len(data) >= 4 + Len(levels)
            /\ RootAddr(data) \in 0 .. Len(data) - 1
            /\ RootAddr(data) \in NodeStarts
            /\ \A a \in ReachableNodes(data) :
                  /\ State_at(data, a).ok
                  /\ \A t \in TargetAddrs(data, a) :
                        t \in 0 .. Len(data) - 1 /\ t \in NodeStarts
                  /\ LevelRef(data, a) # <<>> =>
                        /\ LevelRef(data, a)[1] >= 4
                        /\ LevelRef(data, a)[1] + LevelRef(data, a)[2]
                              <= 4 + Len(levels)
                        /\ LevelRef(data, a)[1] + LevelRef(data, a)[2]
                              <= Len(data)

\* a blob of a compressed trie, whose root lies behind its targets, with a
\* node two transitions away from the root that refers to levels
C8_Witness ==
    /\ blob # <<>> /\ blob[1].ok
    /\ compressions = 1
    /\ \E a \in TargetAddrs(blob[1].v, RootAddr(blob[1].v)) :
          /\ a >= 0 /\ a < RootAddr(blob[1].v)
          /\ \E c \in TargetAddrs(blob[1].v, a) :
                /\ c \in NodeStarts
                /\ LevelRef(blob[1].v, c) # <<>>
                /\ LevelRef(blob[1].v, c)[2] > 0

\* the letters of a pattern: the pattern without its digits
Letters(pattern) == SelectSeq(pattern, LAMBDA c : c < 48 \/ c > 57)

\* the orders in which the patterns of a list without repeats can be inserted
Orders(patterns) ==
    {q \in [1 .. Len(patterns) -> {patterns[i] : i \in 1 .. Len(patterns)}] :
        \A i, j \in 1 .. Len(q) : q[i] = q[j] => i = j}

NoRepeats(patterns) ==
    \A i, j \in 1 .. Len(patterns) : patterns[i] = patterns[j] => i = j

DistinctLetters(patterns) ==
    \A i, j \in 1 .. Len(patterns) :
        Letters(patterns[i]) = Letters(patterns[j]) => i = j

\* new, the inserts in the given order, compress
Compiled(patterns) == compress(insert_all(TrieBuilder_new, patterns))

\* the matcher of this builder and the matcher of the same patterns
\* inserted in the order q assign the same levels to the probe words
SameLevelsAs(q) ==
    LET this  == encode(Builder)
        other == encode(Compiled(q))
    IN  /\ this.ok /\ other.ok
        /\ \A word \in ProbeWords :
              LET h == hyphenate_bounded(this.v, word, 1, 1, TRUE)
                  g == hyphenate_bounded(other.v, word, 1, 1, TRUE)
              IN  h.ok /\ g.ok /\ h.v.levels = g.v.levels

\* C9 (as claimed): for every set of patterns, inserting them in any two
\* orders, then compressing and encoding, yields matchers that assign the
\* same levels to every word.
C9_OrderIndependence ==
    (blob # <<>> /\ compressions = 1 /\ NoRepeats(inserted)) =>
        \A q \in Orders(inserted) : SameLevelsAs(q)

\* C9 (amended): for every set of patterns no two of which have the same
\* letters, inserting them in any two orders, then compressing and encoding,
\* yields matchers that assign the same levels to every word.
C9_OrderIndependenceDistinctLetters ==
    (blob # <<>> /\ compressions = 1 /\ DistinctLetters(inserted)) =>
        \A q \in Orders(inserted) : SameLevelsAs(q)

\* three patterns with distinct letters, two of them sharing their first
\* node, for which another order builds another trie or level table, and a
\* word that gets a level from them
C9_Witness ==
    /\ blob # <<>> /\ blob[1].ok /\ compressions = 1
    /\ Len(inserted) = 3 /\ DistinctLetters(inserted)
    /\ \E i, j \in 1 .. 3 :
          i # j /\ Head(Letters(inserted[i])) = Head(Letters(inserted[j]))
    /\ \E q \in Orders(inserted) : Compiled(q) # Builder
    /\ \E word \in ProbeWords :
          \E k \in 1 .. Len(MatcherLevels(Builder, word)[1]) :
              MatcherLevels(Builder, word)[1][k] # 0

\* an insert of the pattern that the insert before it inserted
Reinsert ==
    /\ inserted # <<>>
    /\ inserted' = Append(inserted, inserted[Len(inserted)])

\* the level vector a node refers to, <<>> for a node without levels
NodeVector(ns, table, node) ==
    IF At(ns, node).levels = <<>> THEN <<>>
    ELSE <<Slice(table, At(ns, node).levels[1][1],
                 At(ns, node).levels[1][1] + At(ns, node).levels[1][2])>>

\* C13 (as claimed): the builder after insert(p); insert(p) equals the
\* builder after insert(p): no node or transition is added, the level table
\* is unchanged and the terminal node of p keeps its reference (offset, length).
C13_ReinsertIdempotent ==
    [][Reinsert => (root' = root /\ nodes' = nodes /\ levels' = levels)]_vars

\* C13 (amended): after insert(p); insert(p) no node or transition is added,
\* the level table is unchanged and every node refers to the same level
\* vector, by a reference of the same length whose offset is not greater.
C13_ReinsertSameVectors ==
    [][Reinsert =>
          /\ root' = root /\ levels' = levels /\ Len(nodes') = Len(nodes)
          /\ \A n \in 0 .. Len(nodes) - 1 :
                /\ At(nodes', n).trans = At(nodes, n).trans
                /\ At(nodes', n).targets = At(nodes, n).targets
                /\ NodeVector(nodes', levels', n) = NodeVector(nodes, levels, n)
                /\ At(nodes, n).levels # <<>> =>
                      /\ At(nodes', n).levels[1][2] = At(nodes, n).levels[1][2]
                      /\ At(nodes', n).levels[1][1] <= At(nodes, n).levels[1][1]]_vars

\* a pattern inserted twice in a row, after another pattern whose levels the
\* table already held
C13_Witness ==
    /\ Len(inserted) = 3
    /\ inserted[2] = inserted[3] /\ inserted[1] # inserted[2]
    /\ compressions = 0 /\ blob = <<>>
    /\ Len(levels) > 1

\* C15: a second compress() starts at the builder's current root and leaves
\* `root` at a node that accepts the same letter strings with the same level
\* vectors as after the first compress().
C15_CompressIdempotent ==
    [][(compressions = 1 /\ compressions' = 2) =>
          TrieWalks(nodes', levels', root', <<>>)
              = TrieWalks(nodes, levels, root, <<>>)]_vars

-----------------------------------------------------------------------------
(* Properties of hyphenation: UTF-8.                                       *)

\* the byte position in the word of the k-th level still held by the
\* iterator: the level sits between the word bytes before and at it
LevelPosition(k) == Len(WordBytes) - Len(syllables[1].levels) + k - 1

\* C12: with patterns and a word that are valid UTF-8, no non-zero level is
\* stored before a continuation byte of the word, every syllable ends at a
\* character boundary of the word, and the str slice in next() never fails.
C12_NoBreakInsideCodepoint ==
    /\ Iterating =>
          /\ \A k \in 1 .. Len(syllables[1].levels) :
                syllables[1].levels[k] # 0 =>
                    is_char_boundary(At(WordBytes, LevelPosition(k)))
          /\ \A p \in PrefixSums(yielded, 0) :
                str_is_char_boundary(call[1].word, p)
    /\ status = "panic" => syllables = <<>>

\* a word broken between two chars of two bytes, all of it yielded
C12_Witness ==
    /\ status = "done"
    /\ Len(yielded) >= 2
    /\ yielded[1][Len(yielded[1])] >= 128
    /\ Head(yielded[2]) >= 128

-----------------------------------------------------------------------------
(* Properties of the encoding: the decoder against the builder.            *)

\* the (cumulative offset, level) pairs of a builder's level vector
RECURSIVE CumulativeLevels(_, _)
CumulativeLevels(vector, offset) ==
    IF vector = <<>> THEN <<>>
    ELSE <<<<offset + Head(vector)[1], Head(vector)[2]>>>>
             \o CumulativeLevels(Tail(vector), offset + Head(vector)[1])

\* what the builder's trie gives for each byte string that is a path from
\* `node`: the string and the cumulative levels of the node it leads to
BuilderWalks ==
    {[path   |-> w.path,
      levels |-> IF w.levels = <<>> THEN <<>>
                 ELSE CumulativeLevels(w.levels[1], 0)]
        : w \in TrieWalks(nodes, levels, root, <<>>)}

\* the byte strings of the longest length a path of the builder can have
MaxPath ==
    Max(1, SetMax({Len(str_bytes(inserted[k])) : k \in 1 .. Len(inserted)} \cup {0}))

\* what transition() and levels() give from a decoded state: the byte
\* strings followed, each with the levels at the state reached; a string on
\* which transition() panics, or that grows longer than any path of the
\* builder, is given the levels "panic"
RECURSIVE DecodedWalks(_, _, _)
DecodedWalks(data, state, prefix) ==
    {[path |-> prefix, levels |-> State_levels(state)]} \cup
    UNION {LET t == State_transition(data, state, At(state.trans, k))
               w == Append(prefix, At(state.trans, k))
           IN  IF ~t.ok \/ t.v = <<>> \/ Len(w) > MaxPath
               THEN {[path |-> w, levels |-> "panic"]}
               ELSE DecodedWalks(data, t.v[1], w)
               : k \in 0 .. Len(state.trans) - 1}

\* the bytes that label no transition of a decoded state lead nowhere
NoOtherTransition(data, state) ==
    \A b \in {WideLetter(k) : k \in 0 .. MaxWidth} \ {state.trans[k] : k \in 1 .. Len(state.trans)} :
        State_transition(data, state, b) = Ok(<<>>)

\* one node as encode() writes it, put behind the root address and the level
\* table, with the root address that of the node
EncodedNodeData ==
    encode_root(4 + Len(levels)) \o encode_levels(levels).v \o encoded[1].bytes.v

\* C11: for a blob that encode() returns, following a byte string from
\* State::root with transition() succeeds exactly when the string is a path
\* from the builder's root, and levels() at the state reached yields the
\* cumulative (offset, level) pairs of the builder node's level vector,
\* nothing when the node has none.
\* The same holds of a single node written with a stride of 1, 2 or 3 bytes
\* for targets as far away as the stride allows: decoded at its address, it
\* has that stride, the node's transitions and levels, and each target delta
\* decodes to the distance of the target.
C11_EncodeDecode ==
    /\ (blob # <<>> /\ blob[1].ok) =>
          LET r == State_root(blob[1].v)
          IN  /\ r.ok
              /\ DecodedWalks(blob[1].v, r.v, <<>>) = BuilderWalks
              /\ NoOtherTransition(blob[1].v, r.v)
    /\ encoded # <<>> =>
          LET e    == encoded[1]
              node == At(nodes, e.node)
              st   == State_root(EncodedNodeData)
          IN  /\ e.bytes.ok
              /\ st.ok
              /\ st.v.stride = e.stride
              /\ st.v.trans = node.trans
              /\ State_levels(st.v)
                    = (IF node.levels = <<>> THEN <<>>
                       ELSE CumulativeLevels(NodeVector(nodes, levels, e.node)[1], 0))
              /\ \A k \in 0 .. Len(node.trans) - 1 :
                    from_be_bytes(Slice(st.v.targets, e.stride * k,
                                        e.stride * (k + 1)))
                        = Ok(At(e.addrs, At(node.targets, k)) - e.addr)

\* the blob of a compressed trie whose root, with a stride of two bytes,
\* points back to a node of 31 or more transitions that has targets with levels
C11_Witness ==
    /\ blob # <<>> /\ blob[1].ok
    /\ LET r == State_root(blob[1].v).v
           t == State_transition(blob[1].v, r, WideLetter(0))
       IN  /\ r.stride = 2
           /\ t.ok /\ t.v # <<>>
           /\ t.v[1].addr < r.addr
           /\ Len(t.v[1].trans) >= 31
           /\ \E b \in {t.v[1].trans[k] : k \in 1 .. Len(t.v[1].trans)} :
                 LET u == State_transition(blob[1].v, t.v[1], b)
                 IN  u.ok /\ u.v # <<>> /\ State_levels(u.v[1]) # <<>>

\* C14: in encode(), for every node i and every child c, the final delta
\* addrs[c] - addrs[i] fits in the signed range of stride(i) bytes, the
\* stride chosen from the estimates: the delta lies between zero and its
\* estimate, so to_be_bytes does not fail on it, forwards or backwards.
C14_StrideFits ==
    /\ blob # <<>> =>
          LET lay == encode_layout(Builder)
              est == encode_estimates(Builder)
          IN  /\ lay.ok /\ blob[1].ok
              /\ \A i \in 0 .. Len(nodes) - 1 :
                    \A k \in 0 .. Len(At(nodes, i).targets) - 1 :
                        LET c == At(At(nodes, i).targets, k)
                            d == At(lay.addrs, c) - At(lay.addrs, i)
                            s == At(est, c) - At(est, i)
                        IN  /\ how_many_bytes(s).ok
                            /\ how_many_bytes(s).v <= At(lay.strides, i)
                            /\ how_many_bytes(d).ok
                            /\ how_many_bytes(d).v <= At(lay.strides, i)
                            /\ to_be_bytes(d, At(lay.strides, i)).ok
                            /\ (s >= 0 => d >= 0 /\ d <= s)
                            /\ (s <= 0 => d <= 0 /\ d >= s)
    /\ encoded # <<>> => encoded[1].bytes.ok

\* a layout in which a node got a stride of two bytes for a backward delta
\* whose estimate needs two bytes while the final delta needs one
C14_Witness ==
    /\ blob # <<>> /\ blob[1].ok
    /\ LET lay == encode_layout(Builder)
           est == encode_estimates(Builder)
       IN  \E i \in 0 .. Len(nodes) - 1 :
               \E k \in 0 .. Len(At(nodes, i).targets) - 1 :
                   LET c == At(At(nodes, i).targets, k)
                   IN  /\ At(lay.strides, i) = 2
                       /\ At(est, c) - At(est, i) < -128
                       /\ At(lay.addrs, c) - At(lay.addrs, i) < 0
                       /\ At(lay.addrs, c) - At(lay.addrs, i) >= -128

=============================================================================
